---- MODULE Spec2Model ----
(***************************************************************************)
(* A model of the zellij session manager `z` (src/z.rs).                   *)
(*                                                                         *)
(* Strings the code inspects character by character (session names,        *)
(* digests, listing lines) are sequences of one-character strings.         *)
(* Option<T> is a sequence of length 0 (None) or 1 (Some).                 *)
(* Result<T> is a record [ok |-> BOOLEAN, val |-> T] (val = <<>> on Err).  *)
(***************************************************************************)
EXTENDS Integers, Sequences, FiniteSets, TLC

VARIABLES
    pc,                 \* position of main
    sessions,           \* Vec<SessionInfo>: the session listing main works on
    layout_src,         \* environment: what each session's layout source gives
    results,            \* per input index: the finished fetch, or Pending
    completed,          \* input indices in the order their fetches finished
    cmds,               \* zellij commands issued so far
    sessions_with_tabs, \* Vec<(SessionInfo, Result<Vec<TabInfo>>)>
    prefixes,           \* the HashMap find_shortest_prefixes returned
    printed,            \* lines written to stdout
    layout,             \* the KDL document handed to parse_kdl_layout
    parsed,             \* what parse_kdl_layout returned for it
    zellij_sessions,    \* environment: the sessions zellij lists, one per line
    output,             \* what `zellij list-sessions` wrote, as lines
    current_session,    \* environment: ZELLIJ_SESSION_NAME, if set
    digest_of,          \* environment: the hash digest of every name
    include_exited,     \* the argument of list_sessions
    listed,             \* what list_sessions returned
    args,               \* Args: the parsed command line
    io,                 \* in order: commands run, listings read, prompts answered
    result,             \* what main returned, once it has
    fs                  \* environment: the files the installer works on

fetchVars == <<sessions, layout_src, results, completed, cmds, sessions_with_tabs,
               prefixes, printed>>

layoutVars == <<layout, parsed>>

listVars == <<zellij_sessions, output, current_session, digest_of, include_exited,
              listed>>

cliVars == <<args, io, result, fs>>

vars == <<pc, fetchVars, layoutVars, listVars, cliVars>>

\* ------------------------------------------------------------------ bounds

\* Most sessions in one listing.
MaxSessions == 3

\* Most nodes below the layout node of one document.
MaxNodes == 4

\* Most lines of one session listing.
MaxLines == 2

\* Most scripts the installer finds.
MaxScripts == 2

\* ------------------------------------------------------- program constants

\* compute_hash_prefix keeps the first 8 hex characters of the hash.
DigestLen == 8

\* find_shortest_prefixes tries the lengths 1..=8.
MaxPrefixLen == 8

\* ------------------------------------------------------------ input domains

AllNames == << <<"a">>, <<"b">>, <<"c">>, <<"d">>, <<"e">> >>

Names == {AllNames[i] : i \in 1..MaxSessions}

\* Hex strings of DigestLen characters of the form 0^k 1^(DigestLen-k).  Two
\* of them share a prefix of any length 0..DigestLen-1, or are equal.
Digests == {[i \in 1..DigestLen |-> IF i <= k THEN "0" ELSE "1"] : k \in 0..DigestLen}

SessionInfo(name, is_current, is_exited, hash_prefix) ==
    [name |-> name, is_current |-> is_current, is_exited |-> is_exited,
     hash_prefix |-> hash_prefix]

\* A listing of the sessions named names[i] with the digests digests[i].
Listing(names, digests) ==
    [i \in 1..Len(names) |-> SessionInfo(names[i], FALSE, FALSE, digests[i])]

\* ------------------------------------------------------------ string helpers

\* s.chars().take(n).collect()
Take(s, n) == SubSeq(s, 1, IF n < Len(s) THEN n ELSE Len(s))

\* s.starts_with(p)
StartsWith(s, p) == Len(p) <= Len(s) /\ SubSeq(s, 1, Len(p)) = p

\* ---------------------------------------------------- find_shortest_prefixes

\* HashMap::insert: a new key is added, an old key's value is replaced.
MapInsert(m, k, v) == [x \in DOMAIN m \cup {k} |-> IF x = k THEN v ELSE m[x]]

EmptyMap == [x \in {} |-> <<>>]

\* The mutant of IsUnique: a session is compared only with the sessions
\* listed before it.
IsUnique_EarlierOnly(ss, session, prefix) ==
    LET at == CHOOSE k \in 1..Len(ss) : ss[k] = session
    IN  \A j \in 1..(at - 1) :
            ss[j].name # session.name => ~StartsWith(ss[j].hash_prefix, prefix)

\* is_unique of one (session, prefix): no session of another name has a
\* digest starting with the prefix.
IsUnique(ss, session, prefix) ==
    \A j \in 1..Len(ss) :
        ss[j].name # session.name => ~StartsWith(ss[j].hash_prefix, prefix)

\* The inner loop `for len in 1..=8`, from `len` on: the first length whose
\* prefix is unique, or 0 when the loop ends without a break.
RECURSIVE FirstUniqueLen(_, _, _)
FirstUniqueLen(ss, session, len) ==
    IF len > MaxPrefixLen THEN 0
    ELSE IF IsUnique(ss, session, Take(session.hash_prefix, len)) THEN len
    ELSE FirstUniqueLen(ss, session, len + 1)

\* The mutant of PrefixLoop: the search starts at the full length.
RECURSIVE PrefixLoop_FullOnly(_, _, _)
PrefixLoop_FullOnly(ss, i, m) ==
    IF i > Len(ss) THEN m
    ELSE LET len == FirstUniqueLen(ss, ss[i], MaxPrefixLen)
         IN  PrefixLoop_FullOnly(ss, i + 1,
                IF len = 0 THEN m
                ELSE MapInsert(m, ss[i].name, Take(ss[i].hash_prefix, len)))

\* The outer loop `for session in sessions`, from index i on, with the map
\* built so far.
RECURSIVE PrefixLoop(_, _, _)
PrefixLoop(ss, i, m) ==
    IF i > Len(ss) THEN m
    ELSE LET len == FirstUniqueLen(ss, ss[i], 1)
         IN  PrefixLoop(ss, i + 1,
                IF len = 0 THEN m
                ELSE MapInsert(m, ss[i].name, Take(ss[i].hash_prefix, len)))

find_shortest_prefixes(ss) == PrefixLoop(ss, 1, EmptyMap)

\* ---------------------------------------------------------------- Result

Ok(v) == [ok |-> TRUE, val |-> v]

Err == [ok |-> FALSE, val |-> <<>>]

\* ------------------------------------------------------------ KDL documents

\* One property of a node: missing, a string, or a value of another type.
Absent == [present |-> FALSE, is_string |-> FALSE, val |-> ""]

NonString == [present |-> TRUE, is_string |-> FALSE, val |-> ""]

Str(s) == [present |-> TRUE, is_string |-> TRUE, val |-> s]

TabNode(name, children) ==
    [name |-> "tab", attr_name |-> name, children |-> children]

\* A node under layout that is no tab (its children are never read).
OtherNode == [name |-> "other", attr_name |-> Absent, children |-> <<>>]

PaneNode(command, cwd) == [name |-> "pane", command |-> command, cwd |-> cwd]

\* A node under a tab that is no pane.
OtherChild == [name |-> "other", command |-> Absent, cwd |-> Absent]

\* A document that parses: its root nodes.  The layout node holds a
\* children block or none.
Document(root) == [parses |-> TRUE, root |-> root]

RootNode(name, has_children, children) ==
    [name |-> name, has_children |-> has_children, children |-> children]

LayoutDoc(nodes) == Document(<<RootNode("layout", TRUE, nodes)>>)

\* Text the KDL parser rejects.
MalformedDoc == [parses |-> FALSE, root |-> <<>>]

\* A document whose root holds no node named layout.
NoLayoutDoc == Document(<<RootNode("other", TRUE, <<OtherNode>>)>>)

\* `layout` without a children block.
BareLayoutDoc == Document(<<RootNode("layout", FALSE, <<>>)>>)

TabNameValues == {Absent, NonString, Str("editor")}

CommandValues == {Absent, NonString, Str("vim")}

CwdValues == {Absent, NonString, Str("/src")}

\* The nodes below layout in document order: a node of depth 1 (a tab or
\* another node) or of depth 2 (a pane or another node, the child of the
\* nearest depth-1 node before it).
NodeDecls ==
    {[depth |-> 1, node |-> TabNode(n, <<>>)] : n \in TabNameValues}
    \cup {[depth |-> 1, node |-> OtherNode]}
    \cup {[depth |-> 2, node |-> PaneNode(c, d)] : c \in CommandValues, d \in CwdValues}
    \cup {[depth |-> 2, node |-> OtherChild]}

\* The nodes under layout that the declarations decls[i..] add to `nodes`.
\* A depth-2 node whose parent is no tab is dropped: the parser never reads it.
RECURSIVE BuildNodes(_, _, _)
BuildNodes(decls, i, nodes) ==
    IF i > Len(decls) THEN nodes
    ELSE LET d == decls[i]
             n == Len(nodes)
         IN  IF d.depth = 1 THEN BuildNodes(decls, i + 1, Append(nodes, d.node))
             ELSE IF n > 0 /\ nodes[n].name = "tab"
             THEN BuildNodes(decls, i + 1,
                    [nodes EXCEPT ![n].children = Append(@, d.node)])
             ELSE BuildNodes(decls, i + 1, nodes)

LayoutDocs ==
    {LayoutDoc(BuildNodes(decls, 1, <<>>)) :
        decls \in UNION {[1..k -> NodeDecls] : k \in 0..MaxNodes}}

Documents == LayoutDocs \cup {MalformedDoc, NoLayoutDoc, BareLayoutDoc}

\* ---------------------------------------------------------- parse_kdl_layout

TabInfo(name, command, cwd) == [name |-> name, command |-> command, cwd |-> cwd]

\* entries().find(name == key) and then value().as_string(): Some(text) for a
\* string property, None for a missing one or one of another type.
EntryString(attr) == IF attr.present /\ attr.is_string THEN <<attr.val>> ELSE <<>>

\* The tab's name: "Tab" unless the name property is a string.
TabName(node) ==
    LET name == EntryString(node.attr_name)
    IN  IF name # <<>> THEN name[1] ELSE "Tab"

\* The loop over a tab's children, from index i on: panes_info.
RECURSIVE PanesInfo(_, _, _)
PanesInfo(children, i, panes_info) ==
    IF i > Len(children) THEN panes_info
    ELSE LET child == children[i]
             command == EntryString(child.command)
             cwd == EntryString(child.cwd)
         IN  IF child.name = "pane" /\ (command # <<>> \/ cwd # <<>>)
             THEN PanesInfo(children, i + 1, Append(panes_info, <<command, cwd>>))
             ELSE PanesInfo(children, i + 1, panes_info)

\* The mutant of UniquePanes: the key of `seen` is the command alone.
RECURSIVE UniquePanes_CommandKey(_, _, _, _, _)
UniquePanes_CommandKey(tab_name, panes_info, i, seen, rows) ==
    IF i > Len(panes_info) THEN rows
    ELSE LET key == panes_info[i][1]
         IN  IF key \in seen
             THEN UniquePanes_CommandKey(tab_name, panes_info, i + 1, seen, rows)
             ELSE UniquePanes_CommandKey(tab_name, panes_info, i + 1, seen \cup {key},
                    Append(rows, TabInfo(tab_name, panes_info[i][1], panes_info[i][2])))

\* The loop over panes_info, from index i on: a row for every pair that
\* `seen.insert` takes.
RECURSIVE UniquePanes(_, _, _, _, _)
UniquePanes(tab_name, panes_info, i, seen, rows) ==
    IF i > Len(panes_info) THEN rows
    ELSE LET key == panes_info[i]
         IN  IF key \in seen
             THEN UniquePanes(tab_name, panes_info, i + 1, seen, rows)
             ELSE UniquePanes(tab_name, panes_info, i + 1, seen \cup {key},
                    Append(rows, TabInfo(tab_name, key[1], key[2])))

\* The mutant of TabRows: a tab without informative panes gets no row.
TabRows_NoPlaceholder(node) ==
    UniquePanes(TabName(node), PanesInfo(node.children, 1, <<>>), 1, {}, <<>>)

\* The rows one tab node pushes to `tabs`.
TabRows(node) ==
    LET tab_name == TabName(node)
        panes_info == PanesInfo(node.children, 1, <<>>)
    IN  IF panes_info # <<>>
        THEN UniquePanes(tab_name, panes_info, 1, {}, <<>>)
        ELSE <<TabInfo(tab_name, <<>>, <<>>)>>

\* The mutant of TabLoop: one `seen` set for the whole document, so a pair
\* seen in an earlier tab is dropped from a later one.
RECURSIVE TabLoopSeen(_, _, _, _)
TabLoopSeen(nodes, i, tabs, seen) ==
    IF i > Len(nodes) THEN tabs
    ELSE IF nodes[i].name # "tab" THEN TabLoopSeen(nodes, i + 1, tabs, seen)
    ELSE LET panes_info == PanesInfo(nodes[i].children, 1, <<>>)
             fresh == SelectSeq(panes_info, LAMBDA p : p \notin seen)
         IN  TabLoopSeen(nodes, i + 1,
                tabs \o (IF fresh # <<>>
                         THEN UniquePanes(TabName(nodes[i]), fresh, 1, {}, <<>>)
                         ELSE <<TabInfo(TabName(nodes[i]), <<>>, <<>>)>>),
                seen \cup {panes_info[k] : k \in 1..Len(panes_info)})

TabLoop_SharedSeen(nodes, i, tabs) == TabLoopSeen(nodes, i, tabs, {})

\* The loop over the layout node's children, from index i on.
RECURSIVE TabLoop(_, _, _)
TabLoop(nodes, i, tabs) ==
    IF i > Len(nodes) THEN tabs
    ELSE IF nodes[i].name = "tab"
    THEN TabLoop(nodes, i + 1, tabs \o TabRows(nodes[i]))
    ELSE TabLoop(nodes, i + 1, tabs)

\* doc.nodes().iter().find(name == "layout"): the index of the first layout
\* node at or after i, or 0.
RECURSIVE FindLayout(_, _)
FindLayout(root, i) ==
    IF i > Len(root) THEN 0
    ELSE IF root[i].name = "layout" THEN i
    ELSE FindLayout(root, i + 1)

parse_kdl_layout(doc) ==
    IF ~doc.parses THEN Err
    ELSE LET at == FindLayout(doc.root, 1)
         IN  IF at # 0 /\ doc.root[at].has_children
             THEN Ok(TabLoop(doc.root[at].children, 1, <<>>))
             ELSE Ok(<<>>)

\* -------------------------------------------------------- parse_session_tabs

\* What the layout source of one session gives: for an exited session the
\* cached session-layout.kdl (missing, or its text), for a live session the
\* output of `zellij -s <name> action dump-layout` (the command fails, or
\* its text).
NoLayout == [ok |-> FALSE, doc |-> MalformedDoc]

LayoutText(doc) == [ok |-> TRUE, doc |-> doc]

\* The mutant of parse_session_tabs: a missing cache entry is passed on as
\* the error it is.
parse_session_tabs_CacheMissErr(session, src) ==
    IF src.ok THEN parse_kdl_layout(src.doc) ELSE Err

parse_session_tabs(session, src) ==
    IF session.is_exited
    THEN IF src.ok THEN parse_kdl_layout(src.doc) ELSE Ok(<<>>)
    ELSE IF src.ok THEN parse_kdl_layout(src.doc) ELSE Err

\* The zellij commands parse_session_tabs runs for a session: the version
\* query behind the cache directory, or the live dump.
FetchCommands(session) ==
    IF session.is_exited
    THEN <<[cmd |-> "version", session |-> session.name]>>
    ELSE <<[cmd |-> "dump-layout", session |-> session.name]>>

\* ------------------------------------------------- display_sessions_with_tabs

Line(kind, fields) == [kind |-> kind, args |-> fields]

\* opt.as_deref().unwrap_or("-")
OrDash(opt) == IF opt = <<>> THEN "-" ELSE opt[1]

\* The lines of one tab list, from index i on.
RECURSIVE TabLines(_, _)
TabLines(tabs, i) ==
    IF i > Len(tabs) THEN <<>>
    ELSE <<Line("tab", <<tabs[i].name, OrDash(tabs[i].command), OrDash(tabs[i].cwd)>>)>>
         \o TabLines(tabs, i + 1)

\* `match tabs_result`: the tabs, or the placeholder.
ResultLines(tabs_result) ==
    IF tabs_result.ok THEN TabLines(tabs_result.val, 1)
    ELSE <<Line("unable", <<>>)>>

\* The loop over sessions_with_tabs, from index i on, with the lines printed
\* so far.  `prefixes.get(&session.name).unwrap()` panics on a missing key.
RECURSIVE DisplayLoop(_, _, _, _)
DisplayLoop(swt, pf, i, out) ==
    IF i > Len(swt) THEN [printed |-> Append(out, Line("usage", <<>>)), panicked |-> FALSE]
    ELSE LET session == swt[i].session
         IN  IF session.name \notin DOMAIN pf
             THEN [printed |-> out, panicked |-> TRUE]
             ELSE DisplayLoop(swt, pf, i + 1,
                    out
                    \o <<Line("session", <<pf[session.name], session.name, session.is_current>>)>>
                    \o ResultLines(swt[i].tabs)
                    \o (IF i < Len(swt) THEN <<Line("blank", <<>>)>> ELSE <<>>))

\* The sessions of the pairs: sessions_with_tabs.iter().map(|(s, _)| s).
SessionsOf(swt) == [i \in 1..Len(swt) |-> swt[i].session]

display_sessions_with_tabs(swt) ==
    IF swt = <<>>
    THEN [printed |-> <<Line("none", <<>>)>>, panicked |-> FALSE, prefixes |-> EmptyMap]
    ELSE LET pf == find_shortest_prefixes(SessionsOf(swt))
             r == DisplayLoop(swt, pf, 1, <<>>)
         IN  [printed |-> r.printed, panicked |-> r.panicked, prefixes |-> pf]

\* -------------------------------------------------------------- list_sessions

\* The escape character, '\x1b'.
Esc == "ESC"

IsWhitespace(c) == c \in {" ", "\t", "\n", "\r"}

\* s.find(c) within s[from..]: the first index at or after `from` that holds
\* c, or 0.
RECURSIVE Find(_, _, _)
Find(s, c, from) ==
    IF from > Len(s) THEN 0
    ELSE IF s[from] = c THEN from
    ELSE Find(s, c, from + 1)

\* s.contains(t)
Contains(s, t) ==
    \E i \in 1..(Len(s) - Len(t) + 1) : SubSeq(s, i, i + Len(t) - 1) = t

\* s.trim_start() and s.trim_end()
RECURSIVE TrimStart(_)
TrimStart(s) == IF s # <<>> /\ IsWhitespace(s[1]) THEN TrimStart(Tail(s)) ELSE s

RECURSIVE TrimEnd(_)
TrimEnd(s) ==
    IF s # <<>> /\ IsWhitespace(s[Len(s)]) THEN TrimEnd(SubSeq(s, 1, Len(s) - 1)) ELSE s

\* s.trim()
Trim(s) == TrimEnd(TrimStart(s))

\* The characters of s up to its first whitespace.
RECURSIVE UntilWhitespace(_)
UntilWhitespace(s) ==
    IF s = <<>> \/ IsWhitespace(s[1]) THEN <<>>
    ELSE <<s[1]>> \o UntilWhitespace(Tail(s))

\* s.split_whitespace().next().unwrap_or("")
FirstToken(s) == UntilWhitespace(TrimStart(s))

\* The name of the session of a line: the text between the `m` that ends the
\* first escape sequence and the next escape character, trimmed; or the
\* first token of the line.
ExtractName(line) ==
    LET start == Find(line, Esc, 1)
    IN  IF start = 0 THEN FirstToken(line)
        ELSE LET m_at == Find(line, "m", start)
             IN  IF m_at = 0 THEN FirstToken(line)
                 ELSE LET name_end == Find(line, Esc, m_at + 1)
                      IN  IF name_end = 0 THEN FirstToken(line)
                          ELSE Trim(SubSeq(line, m_at + 1, name_end - 1))

ExitedMarker == <<"E", "X", "I", "T", "E", "D">>

\* compute_hash_prefix(name): the digest the hash function has for the name.
compute_hash_prefix(name) ==
    IF name \in DOMAIN digest_of THEN digest_of[name]
    ELSE [c \in 1..DigestLen |-> "0"]

\* The first filter: the line is not blank, and not an exited one unless
\* those are asked for.
KeepLine(line, with_exited) ==
    /\ Trim(line) # <<>>
    /\ (with_exited \/ ~Contains(line, ExitedMarker))

\* The mutant of LineRecord: the digest is taken of the first token of the
\* raw line, styling included.
LineRecord_HashLine(line, current) ==
    LET name == ExtractName(line)
    IN  SessionInfo(name, current = <<name>>, Contains(line, ExitedMarker),
                    compute_hash_prefix(FirstToken(line)))

\* The record `map` builds of one line.
LineRecord(line, current) ==
    LET name == ExtractName(line)
    IN  SessionInfo(name, current = <<name>>, Contains(line, ExitedMarker),
                    compute_hash_prefix(name))

\* The filters and the map over output.lines(), from line i on.
RECURSIVE ListLoop(_, _, _, _)
ListLoop(lines, with_exited, current, i) ==
    IF i > Len(lines) THEN <<>>
    ELSE LET rest == ListLoop(lines, with_exited, current, i + 1)
             record == LineRecord(lines[i], current)
         IN  IF KeepLine(lines[i], with_exited) /\ record.name # <<>>
             THEN <<record>> \o rest
             ELSE rest

\* list_sessions(include_exited), given what the command wrote and the
\* current session's name.
list_sessions(out, with_exited, current) ==
    IF ~out.ok THEN Err
    ELSE Ok(ListLoop(out.val, with_exited, current, 1))

\* ------------------------------------------- the output of zellij list-sessions

Chars_Created == <<" ", "[", "C", "r", "e", "a", "t", "e", "d", " ">>

Chars_Ago == <<" ", "a", "g", "o", "]">>

Chars_Resurrect == <<" ", "-", " ", "a", "t", "t", "a", "c", "h", " ", "t", "o", " ",
                     "r", "e", "s", "u", "r", "r", "e", "c", "t", ")">>

\* An escape sequence that sets a style, and the one that resets it.
Style(code) == <<Esc, "[">> \o code \o <<"m">>

Reset == <<Esc, "[", "m">>

\* The line zellij writes for one session: the name, the age, and for an
\* exited session the EXITED marker; with colours, every part in its own
\* style (the name in one escape sequence, or in two when the colour and the
\* weight are set apart), or plain (--no-formatting and older versions).
RenderLine(entry) ==
    IF entry.blank THEN <<" ">>
    ELSE IF entry.styled
    THEN (IF entry.nested
          THEN Style(<<"1">>) \o Style(<<"3", "2">>)
          ELSE Style(<<"3", "2", ";", "1">>))
         \o entry.name \o Reset
         \o Chars_Created \o Style(<<"3", "5", ";", "1">>) \o <<"1", "h">> \o Reset \o Chars_Ago
         \o (IF entry.exited
             THEN <<" ", "(">> \o Style(<<"3", "1", ";", "1">>) \o ExitedMarker \o Reset
                  \o Chars_Resurrect
             ELSE <<>>)
    ELSE entry.name \o Chars_Created \o <<"1", "h">> \o Chars_Ago
         \o (IF entry.exited THEN <<" ", "(">> \o ExitedMarker \o Chars_Resurrect ELSE <<>>)

\* The names a listed session may have; one holds the text of the marker.
ListNames == {<<"a">>, <<"b">>, ExitedMarker}

\* The lines of a listing: a blank line, a line per named session, exited or
\* not, styled or not, a line whose name stands behind two escape
\* sequences, and a styled line whose name is empty.
ListingEntries ==
    {[blank |-> TRUE, name |-> <<>>, styled |-> FALSE, nested |-> FALSE, exited |-> FALSE]}
    \cup {[blank |-> FALSE, name |-> n, styled |-> st, nested |-> FALSE, exited |-> e] :
            n \in ListNames, st \in BOOLEAN, e \in BOOLEAN}
    \cup {[blank |-> FALSE, name |-> <<"a">>, styled |-> TRUE, nested |-> TRUE, exited |-> e] :
            e \in BOOLEAN}
    \cup {[blank |-> FALSE, name |-> <<>>, styled |-> TRUE, nested |-> FALSE, exited |-> e] :
            e \in BOOLEAN}

\* zellij keeps session names unique: no two lines of a listing name the
\* same session.
UniqueNames(entries) ==
    \A i, j \in 1..Len(entries) :
        (entries[i].name # <<>> /\ entries[i].name = entries[j].name) => i = j

\* Two digests a name may hash to.
ListDigests == {[c \in 1..DigestLen |-> "0"], [c \in 1..DigestLen |-> "1"]}

\* ------------------------------------------------------------------- main

\* The mutant of CollectOrder: the pairs are gathered as the fetches finish.
CollectOrder_Completion(n, done) == done

\* The order in which collect() lays out the pairs of an indexed parallel
\* iterator: the order of the input, whatever order the closures finished in.
CollectOrder(n, done) == [i \in 1..n |-> i]

\* One closure of the parallel map finishes: it fetched and parsed the
\* layout of session i.
FetchTabs(i) ==
    /\ pc = "fetch"
    /\ i \in 1..Len(sessions)
    /\ i \notin DOMAIN results
    /\ results' = MapInsert(results, i, parse_session_tabs(sessions[i], layout_src[i]))
    /\ completed' = Append(completed, i)
    /\ cmds' = cmds \o FetchCommands(sessions[i])
    /\ UNCHANGED <<pc, sessions, layout_src, sessions_with_tabs, prefixes, printed>>
    /\ UNCHANGED <<layoutVars, listVars, cliVars>>

\* collect(): every closure has finished.
Collect ==
    /\ pc = "fetch"
    /\ DOMAIN results = 1..Len(sessions)
    /\ LET order == CollectOrder(Len(sessions), completed)
       IN  sessions_with_tabs' =
               [k \in 1..Len(order) |->
                   [session |-> sessions[order[k]], tabs |-> results[order[k]]]]
    /\ pc' = "display"
    /\ UNCHANGED <<sessions, layout_src, results, completed, cmds, prefixes, printed>>
    /\ UNCHANGED <<layoutVars, listVars, cliVars>>

\* display_sessions_with_tabs(sessions_with_tabs)?
Display ==
    /\ pc = "display"
    /\ LET r == display_sessions_with_tabs(sessions_with_tabs)
       IN  /\ printed' = r.printed
           /\ prefixes' = r.prefixes
           /\ pc' = IF r.panicked THEN "panicked" ELSE "done"
    /\ UNCHANGED <<sessions, layout_src, results, completed, cmds, sessions_with_tabs>>
    /\ UNCHANGED <<layoutVars, listVars, cliVars>>

\* parse_kdl_layout(&layout)
ParseLayout ==
    /\ pc = "parse"
    /\ parsed' = <<parse_kdl_layout(layout)>>
    /\ pc' = "parsed"
    /\ UNCHANGED <<layout, fetchVars, listVars, cliVars>>

\* let sessions = list_sessions(args.include_exited)?
ListSessions ==
    /\ pc = "list"
    /\ LET r == list_sessions(output, include_exited, current_session)
       IN  /\ listed' = IF r.ok THEN <<r.val>> ELSE <<>>
           /\ pc' = IF r.ok THEN "listed" ELSE "failed"
    /\ UNCHANGED <<zellij_sessions, output, current_session, digest_of, include_exited>>
    /\ UNCHANGED <<fetchVars, layoutVars, cliVars>>

\* ------------------------------------------------- attach, kill and rename

\* One entry of io: a zellij command that was run and whether it succeeded
\* (for list-sessions, arg is the records list_sessions made of its output),
\* or a prompt and the line read from stdin in answer to it.
Cmd(what, session, arg, ok) ==
    [kind |-> "cmd", what |-> what, session |-> session, arg |-> arg, ok |-> ok]

Prompt(what, session, answer) ==
    [kind |-> "prompt", what |-> what, session |-> session, arg |-> answer, ok |-> TRUE]

\* Result<()>
OkUnit == [ok |-> TRUE, val |-> <<>>]

Failed(message) == [ok |-> FALSE, val |-> message]

\* sessions.iter().find(|s| s.name == name || s.hash_prefix.starts_with(name)):
\* the index of the first such session from i on, or 0.
RECURSIVE FindSession(_, _, _)
FindSession(ss, name, i) ==
    IF i > Len(ss) THEN 0
    ELSE IF ss[i].name = name \/ StartsWith(ss[i].hash_prefix, name) THEN i
    ELSE FindSession(ss, name, i + 1)

\* sessions.iter().any(|s| s.name == new_name)
NameExists(ss, name) == \E i \in 1..Len(ss) : ss[i].name = name

UpperCase == <<"A", "B", "C", "D", "E", "F", "G", "H", "I", "J", "K", "L", "M",
               "N", "O", "P", "Q", "R", "S", "T", "U", "V", "W", "X", "Y", "Z">>

LowerCase == <<"a", "b", "c", "d", "e", "f", "g", "h", "i", "j", "k", "l", "m",
               "n", "o", "p", "q", "r", "s", "t", "u", "v", "w", "x", "y", "z">>

\* s.to_lowercase()
ToLowercase(s) ==
    [i \in 1..Len(s) |->
        IF \E k \in 1..Len(UpperCase) : UpperCase[k] = s[i]
        THEN LowerCase[CHOOSE k \in 1..Len(UpperCase) : UpperCase[k] = s[i]]
        ELSE s[i]]

\* The mutant of Accepted: any answer but "n" is taken for a yes.
Accepted_UnlessNo(line) ==
    ToLowercase(Trim(line)) # <<"n">>

\* let response = response.trim().to_lowercase();
\* response.is_empty() || response == "y" || response == "yes"
Accepted(line) ==
    LET response == ToLowercase(Trim(line))
    IN  response = <<>> \/ response = <<"y">> \/ response = <<"y", "e", "s">>

\* The mutant of kill_session: the current session is not protected.
kill_session_Unguarded(name, ss, current, ran) ==
    LET i == FindSession(ss, name, 1)
    IN  IF i = 0 THEN [io |-> <<>>, result |-> Failed("No session found")]
        ELSE [io |-> <<Cmd("kill-session", ss[i].name, <<>>, ran)>>,
              result |-> IF ran THEN OkUnit ELSE Failed("Failed to kill session")]

\* kill_session(name, sessions), where `ran` tells whether the command it
\* runs succeeds: the commands it runs and what it returns.
kill_session(name, ss, current, ran) ==
    LET i == FindSession(ss, name, 1)
    IN  IF i = 0 THEN [io |-> <<>>, result |-> Failed("No session found")]
        ELSE IF current = <<ss[i].name>>
        THEN [io |-> <<>>, result |-> Failed("Cannot kill the current session")]
        ELSE [io |-> <<Cmd("kill-session", ss[i].name, <<>>, ran)>>,
              result |-> IF ran THEN OkUnit ELSE Failed("Failed to kill session")]

\* The mutant of rename_session: the new name is not looked up.
rename_session_Unchecked(old_name, new_name, ss, current, ran) ==
    LET i == FindSession(ss, old_name, 1)
    IN  IF i = 0 THEN [io |-> <<>>, result |-> Failed("No session found")]
        ELSE [io |-> <<IF current = <<ss[i].name>>
                       THEN Cmd("action rename-session", <<>>, new_name, ran)
                       ELSE Cmd("rename-session", ss[i].name, new_name, ran)>>,
              result |-> IF ran THEN OkUnit ELSE Failed("Failed to rename session")]

\* rename_session(old_name, new_name, sessions)
rename_session(old_name, new_name, ss, current, ran) ==
    LET i == FindSession(ss, old_name, 1)
    IN  IF i = 0 THEN [io |-> <<>>, result |-> Failed("No session found")]
        ELSE IF NameExists(ss, new_name)
        THEN [io |-> <<>>, result |-> Failed("already exists")]
        ELSE [io |-> <<IF current = <<ss[i].name>>
                       THEN Cmd("action rename-session", <<>>, new_name, ran)
                       ELSE Cmd("rename-session", ss[i].name, new_name, ran)>>,
              result |-> IF ran THEN OkUnit ELSE Failed("Failed to rename session")]

\* attach_or_switch_session(name, sessions) when a session is found; with no
\* session found it goes on to offer_to_create_session (offer = TRUE).
attach_or_switch_session(name, ss, current, ran) ==
    LET i == FindSession(ss, name, 1)
    IN  IF i = 0 THEN [io |-> <<>>, result |-> OkUnit, offer |-> TRUE]
        ELSE IF current # <<>>
        THEN IF current = <<ss[i].name>>
             THEN [io |-> <<>>, result |-> OkUnit, offer |-> FALSE]
             ELSE [io |-> <<Cmd("switch-session", ss[i].name, <<>>, ran)>>,
                   result |-> IF ran THEN OkUnit ELSE Failed("Failed to switch session"),
                   offer |-> FALSE]
        ELSE [io |-> <<Cmd("attach", ss[i].name, <<>>, ran)>>,
              result |-> IF ran THEN OkUnit ELSE Failed("Failed to attach to session"),
              offer |-> FALSE]

\* check_dead_session(name), given what `zellij list-sessions` wrote:
\* Err, or Ok of whether an exited session of that name is listed.
check_dead_session(out, name, current) ==
    LET all_sessions == list_sessions(out, TRUE, current)
    IN  IF ~all_sessions.ok THEN Err
        ELSE Ok(\E i \in 1..Len(all_sessions.val) :
                    all_sessions.val[i].name = name /\ all_sessions.val[i].is_exited)

\* active_sessions.iter().any(|s| s.name == name && !s.is_exited) of a
\* fresh list_sessions(false).
IsActiveNow(out, name, current) ==
    LET active_sessions == list_sessions(out, FALSE, current)
    IN  IF ~active_sessions.ok THEN Err
        ELSE Ok(\E i \in 1..Len(active_sessions.val) :
                    active_sessions.val[i].name = name /\ ~active_sessions.val[i].is_exited)

\* What a fresh `zellij list-sessions` may write about the session `name`:
\* the command fails, the session is not listed, is listed as exited, or is
\* listed as running.
FreshListings(name) ==
    {Err, Ok(<<>>)}
    \cup {Ok(<<RenderLine([blank |-> FALSE, name |-> name, styled |-> TRUE,
                           nested |-> FALSE, exited |-> e])>>) : e \in BOOLEAN}

\* The lines a user may give a prompt; the empty one is the end of input.
Answers ==
    {<<>>, <<"\n">>, <<"y", "\n">>, <<"Y", "\n">>, <<"y", "e", "s", "\n">>,
     <<" ", "Y", "e", "s", " ", "\n">>, <<"n", "\n">>, <<"n", "o", "\n">>,
     <<"y", "y", "\n">>}

\* main: --kill
KillSession ==
    /\ pc = "main"
    /\ args.action = "kill"
    /\ \E ran \in BOOLEAN :
        LET r == kill_session(args.session, sessions, current_session, ran)
        IN  /\ io' = io \o r.io
            /\ result' = <<r.result>>
    /\ pc' = "done"
    /\ UNCHANGED <<args, fs, fetchVars, layoutVars, listVars>>

\* main: --rename
RenameSession ==
    /\ pc = "main"
    /\ args.action = "rename"
    /\ \E ran \in BOOLEAN :
        LET r == rename_session(args.session, args.new_name, sessions, current_session, ran)
        IN  /\ io' = io \o r.io
            /\ result' = <<r.result>>
    /\ pc' = "done"
    /\ UNCHANGED <<args, fs, fetchVars, layoutVars, listVars>>

\* main: a session argument and no flag
AttachOrSwitch ==
    /\ pc = "main"
    /\ args.action = "attach"
    /\ \E ran \in BOOLEAN :
        LET r == attach_or_switch_session(args.session, sessions, current_session, ran)
        IN  /\ io' = io \o r.io
            /\ result' = IF r.offer THEN <<>> ELSE <<r.result>>
            /\ pc' = IF r.offer THEN "offer" ELSE "done"
    /\ UNCHANGED <<args, fs, fetchVars, layoutVars, listVars>>

\* offer_to_create_session: check_dead_session(name)?
CheckDeadSession ==
    /\ pc = "offer"
    /\ \E out \in FreshListings(args.session) :
        LET dead == check_dead_session(out, args.session, current_session)
            all_sessions == list_sessions(out, TRUE, current_session)
        IN  /\ io' = Append(io, Cmd("list-sessions", <<>>, all_sessions.val, out.ok))
            /\ result' = IF dead.ok THEN <<>> ELSE <<Failed("Failed to list zellij sessions")>>
            /\ pc' = IF ~dead.ok THEN "done"
                     ELSE IF dead.val THEN "ask_resurrect" ELSE "ask_create"
    /\ UNCHANGED <<args, fs, fetchVars, layoutVars, listVars>>

\* offer_to_create_session: "Would you like to resurrect it? [Y/n]"
AnswerResurrect ==
    /\ pc = "ask_resurrect"
    /\ \E answer \in Answers :
        /\ io' = Append(io, Prompt("resurrect", args.session, answer))
        /\ pc' = IF Accepted(answer) THEN "resurrect" ELSE "done"
        /\ result' = IF Accepted(answer) THEN <<>> ELSE <<OkUnit>>
    /\ UNCHANGED <<args, fs, fetchVars, layoutVars, listVars>>

\* offer_to_create_session: "Would you like to create it? [Y/n]"
AnswerCreate ==
    /\ pc = "ask_create"
    /\ \E answer \in Answers :
        /\ io' = Append(io, Prompt("create", args.session, answer))
        /\ pc' = IF Accepted(answer) THEN "create" ELSE "done"
        /\ result' = IF Accepted(answer) THEN <<>> ELSE <<OkUnit>>
    /\ UNCHANGED <<args, fs, fetchVars, layoutVars, listVars>>

\* resurrect_dead_session: cmd!("zellij", "attach", name).run()
ResurrectAttach ==
    /\ pc = "resurrect"
    /\ \E ran \in BOOLEAN :
        /\ io' = Append(io, Cmd("attach", args.session, <<>>, ran))
        /\ pc' = IF ran THEN "done" ELSE "relist"
        /\ result' = IF ran THEN <<OkUnit>> ELSE <<>>
    /\ UNCHANGED <<args, fs, fetchVars, layoutVars, listVars>>

\* resurrect_dead_session: the attach failed; is the session active now?
Relist ==
    /\ pc = "relist"
    /\ \E out \in FreshListings(args.session) :
        LET active == IsActiveNow(out, args.session, current_session)
            active_sessions == list_sessions(out, FALSE, current_session)
        IN  /\ io' = Append(io, Cmd("list-sessions", <<>>, active_sessions.val, out.ok))
            /\ result' = IF ~active.ok THEN <<Failed("Failed to list zellij sessions")>>
                         ELSE IF active.val THEN <<OkUnit>> ELSE <<>>
            /\ pc' = IF active.ok /\ ~active.val THEN "ask_delete" ELSE "done"
    /\ UNCHANGED <<args, fs, fetchVars, layoutVars, listVars>>

\* resurrect_dead_session: "Would you like to delete it and create a new one?"
AnswerDelete ==
    /\ pc = "ask_delete"
    /\ \E answer \in Answers :
        /\ io' = Append(io, Prompt("delete", args.session, answer))
        /\ pc' = IF Accepted(answer) THEN "delete" ELSE "done"
        /\ result' = IF Accepted(answer) THEN <<>>
                     ELSE <<Failed("Session resurrection cancelled")>>
    /\ UNCHANGED <<args, fs, fetchVars, layoutVars, listVars>>

\* resurrect_dead_session: cmd!("zellij", "delete-session", name).run()?
DeleteSession ==
    /\ pc = "delete"
    /\ \E ran \in BOOLEAN :
        /\ io' = Append(io, Cmd("delete-session", args.session, <<>>, ran))
        /\ pc' = IF ran THEN "create" ELSE "done"
        /\ result' = IF ran THEN <<>> ELSE <<Failed("Failed to delete dead session")>>
    /\ UNCHANGED <<args, fs, fetchVars, layoutVars, listVars>>

\* create_session(name): cmd!("zellij", "-s", name), started detached
\* inside a session and run attached outside of one.
CreateSession ==
    /\ pc = "create"
    /\ \E ran \in BOOLEAN :
        /\ io' = Append(io, Cmd("create", args.session, <<>>, ran))
        /\ result' = IF ran THEN <<OkUnit>> ELSE <<Failed("Failed to create session")>>
    /\ pc' = "done"
    /\ UNCHANGED <<args, fs, fetchVars, layoutVars, listVars>>

\* ------------------------------------------------- the installer (install.rs)

\* What stands at bin_dir/<link name> of a script: nothing, a symlink to the
\* script, a symlink to something else, a symlink to nothing, or a regular
\* file or directory.
LinkStates == {"absent", "correct", "wrong", "broken", "file"}

\* What stands at completion_dir/<file name> of a script's completion file:
\* the script has no completion file ("none"), or the target is absent, has
\* the same content as the source, or differs from it.
CompletionStates == {"none", "absent", "same", "differs"}

\* How the file operations of one call end.
FsOutcomes == {"ok", "remove fails", "symlink fails"}

\* One entry of io of the installer: a call of install_script or
\* install_completion for script n (or the loop passing a script that has no
\* completion file), what stood at its target before, and whether the call
\* returned Ok.
Call(what, n, before, ok) ==
    [kind |-> "call", what |-> what, session |-> n, arg |-> before, ok |-> ok]

\* The mutant of install_script: the stale symlink is removed in a dry run
\* too.
install_script_RemoveInDryRun(link, force, dry_run, outcome) ==
    IF link = "correct" THEN [link |-> link, result |-> OkUnit]
    ELSE IF link = "file"
    THEN [link |-> link, result |-> Failed("Regular file exists. Use --force to overwrite.")]
    ELSE IF dry_run
    THEN [link |-> "absent", result |-> OkUnit]
    ELSE IF link \in {"wrong", "broken"} /\ outcome = "remove fails"
    THEN [link |-> link, result |-> Failed("remove_file")]
    ELSE IF outcome = "symlink fails"
    THEN [link |-> "absent", result |-> Failed("Failed to create symlink")]
    ELSE [link |-> "correct", result |-> OkUnit]

\* install_script(script, bin_dir, force, dry_run), given what stands at the
\* link path and how the file operations end: what stands there afterwards
\* and what the call returns.
install_script(link, force, dry_run, outcome) ==
    IF link = "correct" THEN [link |-> link, result |-> OkUnit]
    ELSE IF link = "file"
    THEN [link |-> link, result |-> Failed("Regular file exists. Use --force to overwrite.")]
    ELSE IF dry_run
    THEN [link |-> link, result |-> OkUnit]
    ELSE IF link \in {"wrong", "broken"} /\ outcome = "remove fails"
    THEN [link |-> link, result |-> Failed("remove_file")]
    ELSE IF outcome = "symlink fails"
    THEN [link |-> "absent", result |-> Failed("Failed to create symlink")]
    ELSE [link |-> "correct", result |-> OkUnit]

\* install_completion(completion_file, shell, completion_dir, dry_run), given
\* what stands at the target path and whether the copy succeeds.
install_completion(target, dry_run, copied) ==
    IF target \in {"same", "differs"} /\ (dry_run \/ target = "same")
    THEN [target |-> target, made_dir |-> FALSE, result |-> OkUnit]
    ELSE IF dry_run
    THEN [target |-> target, made_dir |-> FALSE, result |-> OkUnit]
    ELSE IF copied
    THEN [target |-> "same", made_dir |-> TRUE, result |-> OkUnit]
    ELSE [target |-> target, made_dir |-> TRUE, result |-> Failed("Failed to copy")]

\* get_shell_completion_dir(shell) is Some for these shells.
KnownShells == {"fish", "bash", "zsh"}

\* The calls of io of one kind.
Calls(what) == SelectSeq(io, LAMBDA e : e.what = what)

\* main: create the bin directory, unless in a dry run.
CreateBinDir ==
    /\ pc = "install"
    /\ \E made \in BOOLEAN :
        IF args.dry_run
        THEN /\ fs' = fs
             /\ pc' = "scripts"
             /\ result' = result
        ELSE /\ fs' = [fs EXCEPT !.bin_dir = fs.bin_dir \/ made]
             /\ pc' = IF fs.bin_dir \/ made THEN "scripts" ELSE "done"
             /\ result' = IF fs.bin_dir \/ made THEN result
                          ELSE <<Failed("Failed to create bin directory")>>
    /\ UNCHANGED <<args, io, fetchVars, layoutVars, listVars>>

\* main: for script in &scripts { install_script(...)? }, one script a step.
InstallScript ==
    /\ pc = "scripts"
    /\ LET n == Len(Calls("install_script")) + 1
       IN  IF n > Len(fs.links)
           THEN /\ pc' = "completions"
                /\ UNCHANGED <<fs, io, result>>
           ELSE \E outcome \in FsOutcomes :
                LET r == install_script(fs.links[n], args.force, args.dry_run, outcome)
                IN  /\ fs' = [fs EXCEPT !.links[n] = r.link]
                    /\ io' = Append(io, Call("install_script", n, fs.links[n], r.result.ok))
                    /\ pc' = IF r.result.ok THEN "scripts" ELSE "done"
                    /\ result' = IF r.result.ok THEN result ELSE <<r.result>>
    /\ UNCHANGED <<args, fetchVars, layoutVars, listVars>>

\* main: the completions of the scripts for the shell, one script a step.
InstallCompletion ==
    /\ pc = "completions"
    /\ LET n == Len(Calls("install_completion")) + 1
       IN  IF args.shell = <<>> \/ args.shell[1] \notin KnownShells
              \/ n > Len(fs.completions)
           THEN /\ pc' = "done"
                /\ result' = <<OkUnit>>
                /\ UNCHANGED <<fs, io>>
           ELSE IF fs.completions[n] = "none"
           THEN /\ io' = Append(io, Call("install_completion", n, "none", TRUE))
                /\ UNCHANGED <<fs, pc, result>>
           ELSE \E copied \in BOOLEAN :
                LET r == install_completion(fs.completions[n], args.dry_run, copied)
                IN  /\ fs' = [fs EXCEPT !.completions[n] = r.target,
                                        !.completion_dir = fs.completion_dir \/ r.made_dir]
                    /\ io' = Append(io, Call("install_completion", n, fs.completions[n],
                                             r.result.ok))
                    /\ pc' = IF r.result.ok THEN "completions" ELSE "done"
                    /\ result' = IF r.result.ok THEN result ELSE <<r.result>>
    /\ UNCHANGED <<args, fetchVars, layoutVars, listVars>>

\* --------------------------------------------------------- specifications

\* The values of the variables a specification does not use.
IdleFetch ==
    /\ sessions = <<>>
    /\ layout_src = <<>>
    /\ results = EmptyMap
    /\ completed = <<>>
    /\ cmds = <<>>
    /\ sessions_with_tabs = <<>>
    /\ prefixes = EmptyMap
    /\ printed = <<>>

IdleLayout ==
    /\ layout = MalformedDoc
    /\ parsed = <<>>

IdleCli ==
    /\ args = <<>>
    /\ io = <<>>
    /\ result = <<>>
    /\ fs = <<>>

IdleList ==
    /\ zellij_sessions = <<>>
    /\ output = Err
    /\ current_session = <<>>
    /\ digest_of = EmptyMap
    /\ include_exited = FALSE
    /\ listed = <<>>

\* display_sessions_with_tabs on any listing of sessions with pairwise
\* distinct names, in every order, each session with any digest, every tab
\* list empty.
InitDisplay ==
    /\ pc = "display"
    /\ \E k \in 0..MaxSessions :
        \E names \in [1..k -> Names], digests \in [1..k -> Digests] :
            /\ \A i, j \in 1..k : names[i] = names[j] => i = j
            /\ sessions = Listing(names, digests)
    /\ sessions_with_tabs =
           [i \in 1..Len(sessions) |-> [session |-> sessions[i], tabs |-> Ok(<<>>)]]
    /\ layout_src = <<>>
    /\ results = EmptyMap
    /\ completed = <<>>
    /\ cmds = <<>>
    /\ prefixes = EmptyMap
    /\ printed = <<>>
    /\ IdleLayout
    /\ IdleList
    /\ IdleCli

NextDisplay == Display

SpecDisplay == InitDisplay /\ [][NextDisplay]_vars

\* parse_kdl_layout on any document.
InitLayout ==
    /\ pc = "parse"
    /\ layout \in Documents
    /\ parsed = <<>>
    /\ IdleFetch
    /\ IdleList
    /\ IdleCli

NextLayout == ParseLayout

SpecLayout == InitLayout /\ [][NextLayout]_vars

\* The layout sources of a fetch: none, text that does not parse, and two
\* layouts that do.
EditorDoc == LayoutDoc(<<TabNode(Str("editor"), <<PaneNode(Str("vim"), Str("/src"))>>)>>)

LayoutSources == {NoLayout, LayoutText(MalformedDoc), LayoutText(EditorDoc)}

\* The digest of the i-th session of a fetch: one of its own, or with
\* `collide` the second session shares the digest of the first.
FetchDigest(i, collide) ==
    LET own == IF collide /\ i = 2 THEN 1 ELSE i
    IN  [c \in 1..DigestLen |-> IF c <= own THEN "1" ELSE "0"]

\* main from the parallel fetch on: a listing of live and exited sessions,
\* and what the layout source of each gives.
InitFetch ==
    /\ pc = "fetch"
    /\ \E n \in 0..MaxSessions, collide \in BOOLEAN :
        \E exited \in [1..n -> BOOLEAN] :
            /\ sessions = [i \in 1..n |->
                    SessionInfo(AllNames[i], FALSE, exited[i], FetchDigest(i, collide))]
            /\ layout_src \in [1..n -> LayoutSources]
    /\ results = EmptyMap
    /\ completed = <<>>
    /\ cmds = <<>>
    /\ sessions_with_tabs = <<>>
    /\ prefixes = EmptyMap
    /\ printed = <<>>
    /\ IdleLayout
    /\ IdleList
    /\ IdleCli

NextFetch ==
    \/ \E i \in 1..MaxSessions : FetchTabs(i)
    \/ Collect
    \/ Display

SpecFetch == InitFetch /\ [][NextFetch]_vars

\* list_sessions on any listing: the command fails, or writes one line per
\* session zellij knows.
InitList ==
    /\ pc = "list"
    /\ \E k \in 0..MaxLines :
        /\ zellij_sessions \in [1..k -> ListingEntries]
        /\ UniqueNames(zellij_sessions)
        /\ \/ output = Ok([i \in 1..k |-> RenderLine(zellij_sessions[i])])
           \/ k = 0 /\ output = Err
    /\ current_session \in {<<>>} \cup {<<n>> : n \in ListNames}
    /\ digest_of \in [ListNames -> ListDigests]
    /\ include_exited \in BOOLEAN
    /\ listed = <<>>
    /\ IdleFetch
    /\ IdleLayout
    /\ IdleCli

NextList == ListSessions

SpecList == InitList /\ [][NextList]_vars

\* The names of the sessions of a command: two plain ones and one that is
\* a hex digit, as a digest prefix is.
CliNames == {<<"a">>, <<"b">>, <<"0">>}

\* The digests of the sessions of a command.
CliDigests ==
    {[c \in 1..DigestLen |-> "0"],
     [c \in 1..DigestLen |-> IF c = 1 THEN "0" ELSE "1"],
     [c \in 1..DigestLen |-> "1"]}

\* The session argument of a command: a name, a digest prefix, the empty
\* string, or a name no listed session has (one of them holds the text of
\* the EXITED marker).
CliSessionArgs ==
    CliNames \cup {<<"0", "0">>, <<"0", "1">>, <<"1">>, <<>>, <<"z">>, ExitedMarker}

\* main with --kill, with --rename, or with a session to attach to, on any
\* listing of sessions with pairwise distinct names, inside a session or
\* outside of one.
InitCommand ==
    /\ pc = "main"
    /\ \E k \in 0..MaxSessions :
        \E names \in [1..k -> CliNames], digests \in [1..k -> CliDigests] :
            /\ \A i, j \in 1..k : names[i] = names[j] => i = j
            /\ sessions = Listing(names, digests)
    /\ current_session \in {<<>>, << <<"a">> >>, << <<"0">> >>}
    /\ \/ /\ args \in [action : {"attach", "kill"}, session : CliSessionArgs,
                        new_name : {<<>>}]
       \/ /\ args \in [action : {"rename"}, session : CliSessionArgs,
                        new_name : {<<"a">>, <<"b">>}]
    /\ io = <<>>
    /\ result = <<>>
    /\ fs = <<>>
    /\ layout_src = <<>>
    /\ results = EmptyMap
    /\ completed = <<>>
    /\ cmds = <<>>
    /\ sessions_with_tabs = <<>>
    /\ prefixes = EmptyMap
    /\ printed = <<>>
    /\ IdleLayout
    /\ zellij_sessions = <<>>
    /\ output = Err
    /\ digest_of = EmptyMap
    /\ include_exited = FALSE
    /\ listed = <<>>

NextCommand ==
    \/ KillSession
    \/ RenameSession
    \/ AttachOrSwitch
    \/ CheckDeadSession
    \/ AnswerResurrect
    \/ AnswerCreate
    \/ ResurrectAttach
    \/ Relist
    \/ AnswerDelete
    \/ DeleteSession
    \/ CreateSession

SpecCommand == InitCommand /\ [][NextCommand]_vars

\* The installer on any state of the bin directory and of the completion
\* directory, with any flags: a directory that is missing holds nothing.
InitInstall ==
    /\ pc = "install"
    /\ args \in [force : BOOLEAN, dry_run : BOOLEAN,
                  shell : {<<>>, <<"fish">>, <<"tcsh">>}]
    /\ \E n \in 0..MaxScripts :
        /\ fs \in [bin_dir : BOOLEAN, links : [1..n -> LinkStates],
                    completion_dir : BOOLEAN, completions : [1..n -> CompletionStates]]
        /\ ~fs.bin_dir => \A i \in 1..n : fs.links[i] = "absent"
        /\ ~fs.completion_dir => \A i \in 1..n : fs.completions[i] \in {"none", "absent"}
    /\ io = <<>>
    /\ result = <<>>
    /\ IdleFetch
    /\ IdleLayout
    /\ IdleList

NextInstall ==
    \/ CreateBinDir
    \/ InstallScript
    \/ InstallCompletion

SpecInstall == InitInstall /\ [][NextInstall]_vars

\* ------------------------------------------------------------------ properties

Displayed == pc \in {"done", "panicked"}

DistinctDigests ==
    \A i, j \in 1..Len(sessions) :
        i # j => sessions[i].hash_prefix # sessions[j].hash_prefix

\* Some other session's digest starts with the first l characters of the
\* digest of session i.
SharedPrefix(i, l) ==
    \E j \in 1..Len(sessions) :
        /\ j # i
        /\ SubSeq(sessions[j].hash_prefix, 1, l) = SubSeq(sessions[i].hash_prefix, 1, l)

\* C1: when the names and the 8-character digests of a listing are pairwise
\* distinct, find_shortest_prefixes gives every session a prefix of its own
\* digest of a length L in 1..8, L the smallest length at which no other
\* session's digest starts with that prefix, and no two sessions get the
\* same prefix.
C1_ShortestUniquePrefix ==
    (Displayed /\ DistinctDigests) =>
        /\ \A i \in 1..Len(sessions) :
            /\ sessions[i].name \in DOMAIN prefixes
            /\ LET p == prefixes[sessions[i].name]
                   L == Len(p)
               IN  /\ 1 <= L
                   /\ L <= 8
                   /\ p = SubSeq(sessions[i].hash_prefix, 1, L)
                   /\ ~SharedPrefix(i, L)
                   /\ \A l \in 1..(L - 1) : SharedPrefix(i, l)
        /\ \A i, j \in 1..Len(sessions) :
            i # j => prefixes[sessions[i].name] # prefixes[sessions[j].name]

\* Three sessions with distinct digests were displayed, one with a prefix of
\* one character and one with all eight.
C1_Witness ==
    /\ pc = "done"
    /\ Len(sessions) = 3
    /\ DistinctDigests
    /\ \E i, j \in 1..3 :
        /\ Len(prefixes[sessions[i].name]) = 1
        /\ Len(prefixes[sessions[j].name]) = 8

\* C2: when two sessions of different names have the same digest, each of
\* them still gets an entry, the full digest; so every session of the input
\* has an entry and the lookup in display_sessions_with_tabs never fails.
C2_CollisionFallsBackToFullDigest ==
    Displayed =>
        /\ \A i, j \in 1..Len(sessions) :
            (i # j /\ sessions[i].hash_prefix = sessions[j].hash_prefix) =>
                /\ sessions[i].name \in DOMAIN prefixes
                /\ prefixes[sessions[i].name] = sessions[i].hash_prefix
        /\ \A i \in 1..Len(sessions) : sessions[i].name \in DOMAIN prefixes
        /\ pc # "panicked"

\* Two sessions of one digest were displayed: neither has an entry, and the
\* lookup of the first one's prefix panicked before a line was printed.
CollisionPanics ==
    /\ pc = "panicked"
    /\ Len(sessions) = 2
    /\ sessions[1].hash_prefix = sessions[2].hash_prefix
    /\ prefixes = EmptyMap
    /\ printed = <<>>

\* C3: for a non-empty listing with pairwise distinct digests, in any order,
\* the prefix of one session is never a prefix of (or equal to) the prefix
\* of another.
C3_PrefixFree ==
    (Displayed /\ sessions # <<>> /\ DistinctDigests) =>
        \A i, j \in 1..Len(sessions) :
            i # j =>
                /\ sessions[i].name \in DOMAIN prefixes
                /\ sessions[j].name \in DOMAIN prefixes
                /\ LET p == prefixes[sessions[i].name]
                       q == prefixes[sessions[j].name]
                   IN  ~(Len(p) <= Len(q) /\ SubSeq(q, 1, Len(p)) = p)

\* Three sessions listed against the order of their names, with distinct
\* digests and prefixes of different lengths.
C3_Witness ==
    /\ pc = "done"
    /\ Len(sessions) = 3
    /\ DistinctDigests
    /\ sessions[1].name = <<"c">>
    /\ sessions[3].name = <<"a">>
    /\ Len(prefixes[sessions[1].name]) < Len(prefixes[sessions[2].name])

\* The rows parse_kdl_layout returned.
ResultRows == parsed[1].val

IsString(attr) == attr.present /\ attr.is_string

\* The tab nodes under the layout node, in document order.
LayoutTabs ==
    IF \E i \in 1..Len(layout.root) : layout.root[i].name = "layout"
    THEN LET at == CHOOSE i \in 1..Len(layout.root) :
                      /\ layout.root[i].name = "layout"
                      /\ \A j \in 1..(i - 1) : layout.root[j].name # "layout"
         IN  IF layout.root[at].has_children
             THEN SelectSeq(layout.root[at].children, LAMBDA n : n.name = "tab")
             ELSE <<>>
    ELSE <<>>

\* The (command, cwd) pairs of the informative panes of a tab: the panes
\* that declare a command string or a cwd string.
InfoPairs(tab) ==
    LET panes == SelectSeq(tab.children,
                    LAMBDA c : c.name = "pane" /\ (IsString(c.command) \/ IsString(c.cwd)))
    IN  [i \in 1..Len(panes) |->
            <<IF IsString(panes[i].command) THEN <<panes[i].command.val>> ELSE <<>>,
              IF IsString(panes[i].cwd) THEN <<panes[i].cwd.val>> ELSE <<>> >>]

PairSet(pairs) == {pairs[i] : i \in 1..Len(pairs)}

\* The rows a tab stands for: one per distinct pair, or one for a tab
\* without informative panes.
RowCount(tab) ==
    IF InfoPairs(tab) = <<>> THEN 1 ELSE Cardinality(PairSet(InfoPairs(tab)))

\* The rows the tabs before the k-th stand for.
RECURSIVE RowsBefore(_)
RowsBefore(k) == IF k <= 1 THEN 0 ELSE RowsBefore(k - 1) + RowCount(LayoutTabs[k - 1])

\* The rows at the positions of the k-th tab.
RowsOfTab(k) ==
    SubSeq(ResultRows, RowsBefore(k) + 1, RowsBefore(k) + RowCount(LayoutTabs[k]))

\* The name attribute of a tab, or "Tab".
NameOfTab(tab) == IF IsString(tab.attr_name) THEN tab.attr_name.val ELSE "Tab"

\* The document was parsed, and into as many rows as its tabs stand for.
ParsedRows ==
    /\ pc = "parsed"
    /\ parsed[1].ok
    /\ Len(ResultRows) = RowsBefore(Len(LayoutTabs) + 1)

\* The first pane of the tab that declares the pair.
FirstPane(tab, pair) ==
    CHOOSE i \in 1..Len(InfoPairs(tab)) :
        /\ InfoPairs(tab)[i] = pair
        /\ \A j \in 1..(i - 1) : InfoPairs(tab)[j] # pair

\* C4: a tab with informative panes yields exactly one row per distinct
\* (command, cwd) pair among them, in the order of the pairs' first
\* occurrence, and every row carries the tab's name.
C4_OneRowPerDistinctPair ==
    (pc = "parsed" /\ layout.parses) =>
        /\ ParsedRows
        /\ \A k \in 1..Len(LayoutTabs) :
            LET tab == LayoutTabs[k]
                rows == RowsOfTab(k)
            IN  InfoPairs(tab) # <<>> =>
                    /\ \A r \in 1..Len(rows) :
                        /\ rows[r].name = NameOfTab(tab)
                        /\ <<rows[r].command, rows[r].cwd>> \in PairSet(InfoPairs(tab))
                    /\ \A pair \in PairSet(InfoPairs(tab)) :
                        \E r \in 1..Len(rows) : <<rows[r].command, rows[r].cwd>> = pair
                    /\ \A r, t \in 1..Len(rows) :
                        r < t =>
                            FirstPane(tab, <<rows[r].command, rows[r].cwd>>)
                                < FirstPane(tab, <<rows[t].command, rows[t].cwd>>)

\* A tab with the panes A, B, A, where A and B differ only in that B has no
\* cwd, was parsed into the rows A, B.
C4_Witness ==
    /\ pc = "parsed"
    /\ parsed[1].ok
    /\ Len(LayoutTabs) = 1
    /\ InfoPairs(LayoutTabs[1]) =
           << <<<<"vim">>, <<"/src">>>>, <<<<"vim">>, <<>>>>, <<<<"vim">>, <<"/src">>>> >>
    /\ ResultRows = <<TabInfo("editor", <<"vim">>, <<"/src">>),
                      TabInfo("editor", <<"vim">>, <<>>)>>

\* C5: every tab under layout has at least one row; it has a row with
\* neither command nor cwd exactly when none of its panes declares a command
\* or a cwd, and then that row is its only one, named by the tab's name
\* attribute or "Tab".
C5_EveryTabHasARow ==
    (pc = "parsed" /\ layout.parses) =>
        /\ ParsedRows
        /\ \A k \in 1..Len(LayoutTabs) :
            LET tab == LayoutTabs[k]
                rows == RowsOfTab(k)
                bare == {r \in 1..Len(rows) : rows[r].command = <<>> /\ rows[r].cwd = <<>>}
            IN  /\ Len(rows) >= 1
                /\ bare # {} <=> InfoPairs(tab) = <<>>
                /\ bare # {} => rows = <<TabInfo(NameOfTab(tab), <<>>, <<>>)>>

\* A tab without a name whose only pane declares nothing, and a named tab
\* without panes, were parsed into one bare row each.
C5_Witness ==
    /\ pc = "parsed"
    /\ parsed[1].ok
    /\ Len(LayoutTabs) = 2
    /\ LayoutTabs[1] = TabNode(Absent, <<PaneNode(Absent, Absent)>>)
    /\ LayoutTabs[2] = TabNode(Str("editor"), <<>>)
    /\ ResultRows = <<TabInfo("Tab", <<>>, <<>>), TabInfo("editor", <<>>, <<>>)>>

\* C6: the rows are grouped by tab in the document order of the tabs, a
\* pair is never dropped because another tab has it too, and a document
\* without a layout root node yields the empty sequence, not an error.
C6_RowsGroupedByTab ==
    (pc = "parsed" /\ layout.parses) =>
        /\ ParsedRows
        /\ \A k \in 1..Len(LayoutTabs) :
            LET tab == LayoutTabs[k]
                rows == RowsOfTab(k)
            IN  /\ \A r \in 1..Len(rows) : rows[r].name = NameOfTab(tab)
                /\ \A pair \in PairSet(InfoPairs(tab)) :
                    \E r \in 1..Len(rows) : <<rows[r].command, rows[r].cwd>> = pair
        /\ (\A i \in 1..Len(layout.root) : layout.root[i].name # "layout") =>
                parsed[1] = Ok(<<>>)

\* Two tabs of different names with the same pane were parsed into a row
\* each, the earlier tab's first.
C6_Witness ==
    /\ pc = "parsed"
    /\ parsed[1].ok
    /\ Len(LayoutTabs) = 2
    /\ NameOfTab(LayoutTabs[1]) # NameOfTab(LayoutTabs[2])
    /\ InfoPairs(LayoutTabs[1]) = << <<<<"vim">>, <<"/src">>>> >>
    /\ InfoPairs(LayoutTabs[2]) = << <<<<"vim">>, <<"/src">>>> >>
    /\ Len(ResultRows) = 2
    /\ ResultRows[1].name = NameOfTab(LayoutTabs[1])
    /\ ResultRows[2].name = NameOfTab(LayoutTabs[2])

\* A document without a layout root node was parsed.
C6_NoLayoutParsed ==
    /\ pc = "parsed"
    /\ layout = NoLayoutDoc
    /\ parsed = <<Ok(<<>>)>>

Collected == pc \in {"display", "done", "panicked"}

\* C7: the parallel fetch returns one (session, result) pair per session of
\* the listing, in the order of the listing, each session with the result
\* of its own fetch, whatever order the fetches finished in.
C7_FetchKeepsListingOrder ==
    Collected =>
        /\ Len(sessions_with_tabs) = Len(sessions)
        /\ \A i \in 1..Len(sessions) :
            /\ sessions_with_tabs[i].session = sessions[i]
            /\ sessions_with_tabs[i].tabs = results[i]

\* Three fetches finished in the order 3, 1, 2, the first and the last
\* session with different results, and the pairs were collected.
C7_Witness ==
    /\ pc = "display"
    /\ Len(sessions) = 3
    /\ completed = <<3, 1, 2>>
    /\ results[1] # results[3]
    /\ results[2] # results[3]

\* The layout of live session i could not be fetched or not be parsed.
LiveFailed(i) ==
    /\ ~sessions[i].is_exited
    /\ ~(layout_src[i].ok /\ layout_src[i].doc.parses)

\* The layout of session i was fetched and parsed.
FetchedTabs(i) == layout_src[i].ok /\ layout_src[i].doc.parses

\* stdout shows session i, and under it its tabs or the placeholder.
ShownWithTabs(i) ==
    \E k \in 1..Len(printed) :
        /\ printed[k].kind = "session"
        /\ printed[k].args[2] = sessions[i].name
        /\ LET tabs == sessions_with_tabs[i].tabs
           IN  IF tabs.ok
               THEN \A t \in 1..Len(tabs.val) :
                        /\ k + t <= Len(printed)
                        /\ printed[k + t].kind = "tab"
                        /\ printed[k + t].args[1] = tabs.val[t].name
               ELSE /\ k + 1 <= Len(printed)
                    /\ printed[k + 1].kind = "unable"

\* C8: when the layout of a live session cannot be fetched or parsed, the
\* failure is the error result of that session alone: the batch completes,
\* every other session keeps its own tab list at its own position, and
\* display_sessions_with_tabs prints the placeholder for the failed session
\* and the tabs of the others, without an error.
C8_FailureStaysWithItsSession ==
    (Collected /\ \E i \in 1..Len(sessions) : LiveFailed(i)) =>
        /\ Len(sessions_with_tabs) = Len(sessions)
        /\ \A i \in 1..Len(sessions) :
            /\ sessions_with_tabs[i].session = sessions[i]
            /\ LiveFailed(i) => ~sessions_with_tabs[i].tabs.ok
            /\ FetchedTabs(i) =>
                sessions_with_tabs[i].tabs = Ok(<<TabInfo("editor", <<"vim">>, <<"/src">>)>>)
        /\ pc # "panicked"
        /\ pc = "done" => \A i \in 1..Len(sessions) : ShownWithTabs(i)

\* What C8 says does hold of every listing whose digests are pairwise
\* distinct: there every session has a prefix and the display cannot panic.
FailureStaysWithItsSessionUnlessCollision ==
    DistinctDigests => C8_FailureStaysWithItsSession

\* Of three sessions the second, a live one, failed, the other two have
\* their tabs, and all three were displayed.
FailureDisplayed ==
    /\ pc = "done"
    /\ Len(sessions) = 3
    /\ LiveFailed(2)
    /\ FetchedTabs(1)
    /\ FetchedTabs(3)
    /\ \A i \in 1..3 : ShownWithTabs(i)

\* C9: for an exited session without a cached layout file parse_session_tabs
\* returns an empty tab list, never an error, and the live dump-layout
\* command is not issued for that session.
C9_CacheMissIsEmptyTabList ==
    \A i \in 1..Len(sessions) :
        (sessions[i].is_exited /\ layout_src[i] = NoLayout) =>
            /\ i \in DOMAIN results => results[i] = Ok(<<>>)
            /\ \A c \in 1..Len(cmds) :
                ~(cmds[c].cmd = "dump-layout" /\ cmds[c].session = sessions[i].name)

\* An exited session without a cached layout and a live session were both
\* fetched, the live one by its dump-layout command.
C9_Witness ==
    /\ Len(sessions) = 2
    /\ DOMAIN results = {1, 2}
    /\ sessions[1].is_exited
    /\ layout_src[1] = NoLayout
    /\ results[1] = Ok(<<>>)
    /\ ~sessions[2].is_exited
    /\ cmds = <<[cmd |-> "dump-layout", session |-> sessions[2].name],
                [cmd |-> "version", session |-> sessions[1].name]>>

\* The sessions of the listing that are not exited and have a name.
LiveNamed ==
    SelectSeq(zellij_sessions, LAMBDA e : ~e.blank /\ ~e.exited /\ e.name # <<>>)

\* C10: list_sessions(false) returns, in listing order, a record for every
\* session of the listing that is not exited and has a non-empty name, and
\* for no exited session; every record has is_exited = false.
C10_LiveSessionsListed ==
    (pc = "listed" /\ ~include_exited) =>
        /\ Len(listed[1]) = Len(LiveNamed)
        /\ \A i \in 1..Len(LiveNamed) :
            /\ listed[1][i].name = LiveNamed[i].name
            /\ ~listed[1][i].is_exited

\* What C10 says does hold of every listing in which no live session's name
\* holds the text EXITED and every name stands behind at most one escape
\* sequence.
LiveSessionsListedUnlessNamedExited ==
    (\A i \in 1..Len(zellij_sessions) :
        /\ ~zellij_sessions[i].nested
        /\ (zellij_sessions[i].exited
             \/ ~Contains(zellij_sessions[i].name, ExitedMarker)))
    => C10_LiveSessionsListed

\* An exited session and a live one were listed without the exited ones:
\* only the live one is returned.
ExitedSessionDropped ==
    /\ pc = "listed"
    /\ ~include_exited
    /\ Len(zellij_sessions) = 2
    /\ zellij_sessions[1].exited
    /\ zellij_sessions[1].name = <<"a">>
    /\ ~zellij_sessions[2].exited
    /\ zellij_sessions[2].name = <<"b">>
    /\ Len(listed[1]) = 1
    /\ listed[1][1].name = <<"b">>

\* The sessions of the listing that have a name.
NamedEntries ==
    SelectSeq(zellij_sessions, LAMBDA e : ~e.blank /\ e.name # <<>>)

\* C11: list_sessions records the bare name of the session of every line:
\* the text between the styling escape sequences, one or several before the
\* name and one after it, or the first token of a line without escape
\* sequences; only lines without a session name are discarded. (Stated of
\* listings that include the exited sessions, so that no line is dropped
\* for being exited.)
C11_BareNameRecorded ==
    (pc = "listed" /\ include_exited) =>
        /\ Len(listed[1]) = Len(NamedEntries)
        /\ \A i \in 1..Len(NamedEntries) : listed[1][i].name = NamedEntries[i].name

\* What C11 says does hold of every listing in which every name stands
\* behind at most one escape sequence.
BareNameRecordedUnlessNested ==
    (\A i \in 1..Len(zellij_sessions) : ~zellij_sessions[i].nested)
    => C11_BareNameRecorded

\* A plain line and a line with one escape sequence before the name both
\* give their session's name.
BareNamesListed ==
    /\ pc = "listed"
    /\ include_exited
    /\ Len(zellij_sessions) = 2
    /\ zellij_sessions[1].styled /\ ~zellij_sessions[1].nested
    /\ zellij_sessions[1].name = <<"a">>
    /\ ~zellij_sessions[2].styled
    /\ zellij_sessions[2].name = <<"b">>
    /\ Len(listed[1]) = 2
    /\ listed[1][1].name = <<"a">>
    /\ listed[1][2].name = <<"b">>

\* The number of records of the result that are marked current.
CurrentCount ==
    Cardinality({i \in 1..Len(listed[1]) : listed[1][i].is_current})

\* The current session's name is set and the listing has that session, on a
\* line the include_exited argument keeps.
CurrentInListing ==
    /\ current_session # <<>>
    /\ \E i \in 1..Len(zellij_sessions) :
        /\ ~zellij_sessions[i].blank
        /\ zellij_sessions[i].name = current_session[1]
        /\ (include_exited \/ ~zellij_sessions[i].exited)

\* C12: at most one record of a result of list_sessions is marked current;
\* exactly one is when the current session's name is set and the listing has
\* that session, and the marked record bears the current session's name.
C12_OneCurrentRecord ==
    pc = "listed" =>
        /\ CurrentCount <= 1
        /\ CurrentInListing => CurrentCount = 1
        /\ \A i \in 1..Len(listed[1]) :
            listed[1][i].is_current => current_session = <<listed[1][i].name>>

\* What C12 says does hold of every listing in which every name stands
\* behind at most one escape sequence and no live session's name holds the
\* text EXITED.
OneCurrentRecordUnlessNameLost ==
    (\A i \in 1..Len(zellij_sessions) :
        /\ ~zellij_sessions[i].nested
        /\ (include_exited \/ zellij_sessions[i].exited
             \/ ~Contains(zellij_sessions[i].name, ExitedMarker)))
    => C12_OneCurrentRecord

\* The current session is the second of two listed sessions: its record
\* alone is marked current.
CurrentMarked ==
    /\ pc = "listed"
    /\ current_session = <<<<"b">>>>
    /\ Len(listed[1]) = 2
    /\ listed[1][1].name = <<"a">> /\ ~listed[1][1].is_current
    /\ listed[1][2].name = <<"b">> /\ listed[1][2].is_current

\* C14: the hash_prefix of every record list_sessions returns is the digest
\* of the record's name, whatever the record's is_current and is_exited
\* flags, its place in the listing and the include_exited argument; records
\* of the same name therefore have the same hash_prefix.
C14_HashPrefixOfNameAlone ==
    pc = "listed" =>
        /\ \A i \in 1..Len(listed[1]) :
            /\ listed[1][i].name \in DOMAIN digest_of
            /\ listed[1][i].hash_prefix = digest_of[listed[1][i].name]
        /\ \A i, j \in 1..Len(listed[1]) :
            listed[1][i].name = listed[1][j].name
            => listed[1][i].hash_prefix = listed[1][j].hash_prefix

\* Two sessions whose names hash to different digests are listed, the first
\* styled, exited and current, the second plain and live: each record has
\* its own name's digest.
C14_Witness ==
    /\ pc = "listed"
    /\ include_exited
    /\ Len(listed[1]) = 2
    /\ zellij_sessions[1].styled /\ ~zellij_sessions[2].styled
    /\ listed[1][1].is_exited /\ listed[1][1].is_current
    /\ ~listed[1][2].is_exited /\ ~listed[1][2].is_current
    /\ digest_of[listed[1][1].name] # digest_of[listed[1][2].name]
    /\ listed[1][1].hash_prefix = digest_of[listed[1][1].name]
    /\ listed[1][2].hash_prefix = digest_of[listed[1][2].name]

\* The commands of io that attach to, create, kill, delete or rename a
\* session.
SessionCommands ==
    SelectSeq(io, LAMBDA e : e.kind = "cmd" /\ e.what # "list-sessions")

\* The argument is no session's name and a prefix of no session's digest.
NoSessionMatches ==
    \A i \in 1..Len(sessions) :
        /\ sessions[i].name # args.session
        /\ SubSeq(sessions[i].hash_prefix, 1, Len(args.session)) # args.session

\* C13: attach, kill and rename with an argument that is no session's name
\* and a prefix of no session's digest end as a failure and run no command
\* that attaches to, creates, kills or renames a session.
C13_NotFoundFailsWithoutCommand ==
    (pc # "main" /\ NoSessionMatches) =>
        /\ SessionCommands = <<>>
        /\ pc = "done" => ~result[1].ok

\* What C13 says does hold of kill and rename.
NotFoundFailsForKillAndRename ==
    args.action \in {"kill", "rename"} => C13_NotFoundFailsWithoutCommand

\* A kill with an argument that matches nothing has failed without a command.
KillNotFound ==
    /\ pc = "done"
    /\ args.action = "kill"
    /\ args.session = <<"z">>
    /\ Len(sessions) = 2
    /\ NoSessionMatches
    /\ io = <<>>
    /\ result = <<Failed("No session found")>>

\* The session the argument selects: the first one whose name equals it or
\* whose digest starts with it; 0 when there is none.
Selected ==
    IF NoSessionMatches THEN 0
    ELSE CHOOSE i \in 1..Len(sessions) :
            /\ sessions[i].name = args.session
               \/ SubSeq(sessions[i].hash_prefix, 1, Len(args.session)) = args.session
            /\ \A j \in 1..(i - 1) :
                /\ sessions[j].name # args.session
                /\ SubSeq(sessions[j].hash_prefix, 1, Len(args.session)) # args.session

\* C17: kill_session never runs kill-session for the session whose name is
\* the current session's name, be it selected by name or by digest prefix;
\* it then returns an error and runs no command.
C17_CurrentSessionNotKilled ==
    args.action = "kill" =>
        /\ \A k \in 1..Len(io) :
            io[k].what = "kill-session" => current_session # <<io[k].session>>
        /\ (pc = "done" /\ Selected # 0
             /\ current_session = <<sessions[Selected].name>>)
            => (io = <<>> /\ ~result[1].ok)

\* The current session was selected by a digest prefix that is no session's
\* name: the kill is refused and nothing was run.
C17_Witness ==
    /\ pc = "done"
    /\ args.action = "kill"
    /\ Len(sessions) = 2
    /\ Selected = 2
    /\ sessions[1].name # args.session /\ sessions[2].name # args.session
    /\ current_session = <<sessions[2].name>>
    /\ io = <<>>
    /\ result = <<Failed("Cannot kill the current session")>>

\* The commands of io that rename a session.
IsRename(e) == e.what \in {"rename-session", "action rename-session"}

\* The part of C18 about the commands: no rename command has the name of a
\* listed session as its new name; the current session is renamed by the
\* in-session action, any other session by the rename of the named session.
RenameCommandsSafe ==
    \A k \in 1..Len(io) :
        IsRename(io[k]) =>
            /\ \A i \in 1..Len(sessions) : sessions[i].name # io[k].arg
            /\ Selected # 0
            /\ io[k].arg = args.new_name
            /\ IF current_session = <<sessions[Selected].name>>
               THEN io[k].what = "action rename-session"
               ELSE /\ io[k].what = "rename-session"
                    /\ io[k].session = sessions[Selected].name

\* The new name is the name of a session of the listing.
NewNameListed == \E i \in 1..Len(sessions) : sessions[i].name = args.new_name

\* C18 as stated: rename_session runs no rename command whose new name is a
\* listed session's name and then returns the 'already exists' error; the
\* current session is renamed by the in-session action, another session by
\* the rename of the named session.
C18_RenameNeverTakesAListedName ==
    args.action = "rename" =>
        /\ RenameCommandsSafe
        /\ (pc = "done" /\ NewNameListed) => result = <<Failed("already exists")>>

\* C18 as amended: the error is 'already exists' when the old name or prefix
\* selects a session, and the not-found error when it selects none.
C18_RenameRefusesAListedName ==
    args.action = "rename" =>
        /\ RenameCommandsSafe
        /\ (pc = "done" /\ NewNameListed) =>
            /\ io = <<>>
            /\ result = <<IF Selected # 0 THEN Failed("already exists")
                           ELSE Failed("No session found")>>

\* A rename of the first session to the name of the second was refused.
C18_Witness ==
    /\ pc = "done"
    /\ args.action = "rename"
    /\ Len(sessions) = 2
    /\ Selected = 1
    /\ args.new_name = sessions[2].name
    /\ io = <<>>
    /\ result = <<Failed("already exists")>>

\* A rename of the current session to a free name used the in-session
\* action.
CurrentSessionRenamed ==
    /\ pc = "done"
    /\ args.action = "rename"
    /\ Selected # 0
    /\ ~NewNameListed
    /\ current_session = <<sessions[Selected].name>>
    /\ io = <<Cmd("action rename-session", <<>>, args.new_name, TRUE)>>
    /\ result = <<OkUnit>>

\* The commands of io that act on one named session.
TargetsSession(e) ==
    e.kind = "cmd" /\ e.what \in {"attach", "switch-session", "kill-session",
                                   "rename-session", "delete-session", "create"}

\* C19: in a listing of pairwise distinct digests, the shortest unique
\* prefix find_shortest_prefixes gives a session S, handed to the lookup of
\* attach, kill and rename, selects S and no other session.
C19_PrefixSelectsItsSession ==
    (pc # "main" /\ DistinctDigests) =>
        LET pf == find_shortest_prefixes(sessions)
        IN  \A i \in 1..Len(sessions) :
                (sessions[i].name \in DOMAIN pf /\ args.session = pf[sessions[i].name])
                => /\ Selected = i
                   /\ pc = "done"
                   /\ \A k \in 1..Len(io) :
                        TargetsSession(io[k]) => io[k].session = sessions[i].name

\* What C19 says does hold of every listing in which no session is named
\* like the argument.
PrefixSelectsItsSessionUnlessNamed ==
    (\A i \in 1..Len(sessions) : sessions[i].name # args.session)
    => C19_PrefixSelectsItsSession

\* The second of three sessions was killed by its two-character prefix.
KilledByPrefix ==
    /\ pc = "done"
    /\ args.action = "kill"
    /\ DistinctDigests
    /\ Len(sessions) = 3
    /\ Len(args.session) = 2
    /\ find_shortest_prefixes(sessions)[sessions[2].name] = args.session
    /\ io = <<Cmd("kill-session", sessions[2].name, <<>>, TRUE)>>

\* The lines that, trimmed and in lower case, are empty, "y" or "yes".
AcceptingAnswers ==
    {<<>>, <<"\n">>, <<"y", "\n">>, <<"Y", "\n">>, <<"y", "e", "s", "\n">>,
     <<" ", "Y", "e", "s", " ", "\n">>}

IsPrompt(e, what) == e.kind = "prompt" /\ e.what = what

IsCommand(e, what) == e.kind = "cmd" /\ e.what = what

\* A listing that was read and has no running session of the name asked for.
ShowsNotActive(e) ==
    /\ IsCommand(e, "list-sessions")
    /\ e.ok
    /\ \A r \in 1..Len(e.arg) : ~(e.arg[r].name = args.session /\ ~e.arg[r].is_exited)

\* The user was asked whether to resurrect a dead session.
InRecovery == \E k \in 1..Len(io) : IsPrompt(io[k], "resurrect")

\* C20: in the recovery of a dead session, delete-session is run only after,
\* in this order, the resurrect prompt was accepted, the attach failed, a
\* fresh listing showed the session not active and the delete prompt was
\* accepted; the session is created only after the delete succeeded; any
\* other answer to either prompt runs no delete and no create.
C20_DeleteOnlyAfterConsent ==
    /\ \A p \in 1..Len(io) :
        IsCommand(io[p], "delete-session") =>
            /\ io[p].session = args.session
            /\ \E p1, p2, p3, p4 \in 1..(p - 1) :
                /\ p1 < p2 /\ p2 < p3 /\ p3 < p4
                /\ IsPrompt(io[p1], "resurrect") /\ io[p1].arg \in AcceptingAnswers
                /\ io[p2] = Cmd("attach", args.session, <<>>, FALSE)
                /\ ShowsNotActive(io[p3])
                /\ IsPrompt(io[p4], "delete") /\ io[p4].arg \in AcceptingAnswers
    /\ InRecovery =>
        \A p \in 1..Len(io) :
            IsCommand(io[p], "create") =>
                /\ p > 1
                /\ io[p - 1] = Cmd("delete-session", args.session, <<>>, TRUE)
                /\ io[p].session = args.session
    /\ (\E k \in 1..Len(io) :
            /\ IsPrompt(io[k], "resurrect") \/ IsPrompt(io[k], "delete")
            /\ io[k].arg \notin AcceptingAnswers)
        => \A p \in 1..Len(io) :
            ~IsCommand(io[p], "delete-session") /\ ~IsCommand(io[p], "create")

\* The whole recovery ran: both prompts accepted, the attach failed, the
\* session was deleted and created anew.
C20_Witness ==
    /\ pc = "done"
    /\ Len(io) = 7
    /\ IsPrompt(io[2], "resurrect") /\ io[2].arg = <<"Y", "\n">>
    /\ io[3] = Cmd("attach", args.session, <<>>, FALSE)
    /\ ShowsNotActive(io[4])
    /\ IsPrompt(io[5], "delete") /\ io[5].arg = <<"\n">>
    /\ io[6] = Cmd("delete-session", args.session, <<>>, TRUE)
    /\ io[7] = Cmd("create", args.session, <<>>, TRUE)
    /\ result = <<OkUnit>>

\* The delete prompt was declined: nothing was deleted or created and the
\* recovery ended as cancelled.
RecoveryDeclined ==
    /\ pc = "done"
    /\ Len(io) = 5
    /\ IsPrompt(io[5], "delete") /\ io[5].arg = <<"n", "o", "\n">>
    /\ result = <<Failed("Session resurrection cancelled")>>

\* C15: with --dry-run no step of the installer changes the filesystem: no
\* directory is created, no link removed or created, no completion file
\* copied, whatever stands in the bin and completion directories.
C15_DryRunChangesNothing ==
    [][args.dry_run => fs' = fs]_vars

\* A dry run has run to its end over a symlink to another file, a broken
\* symlink, a completion file that differs and one that is missing:
\* everything is as it was.
C15_Witness ==
    /\ pc = "done"
    /\ args.dry_run
    /\ result = <<OkUnit>>
    /\ Len(fs.links) = 2
    /\ io = <<Call("install_script", 1, "wrong", TRUE),
              Call("install_script", 2, "broken", TRUE),
              Call("install_completion", 1, "differs", TRUE),
              Call("install_completion", 2, "absent", TRUE)>>
    /\ fs.links[1] = "wrong" /\ fs.links[2] = "broken"
    /\ fs.completions[1] = "differs" /\ fs.completions[2] = "absent"

\* A dry run has run to its end where the bin directory and the completion
\* directory are missing: they still are.
DryRunOverMissingDirectories ==
    /\ pc = "done"
    /\ args.dry_run
    /\ result = <<OkUnit>>
    /\ Len(fs.links) = 2
    /\ Len(io) = 4
    /\ io[3] = Call("install_completion", 1, "absent", TRUE)
    /\ ~fs.bin_dir /\ ~fs.completion_dir
    /\ fs.links[1] = "absent" /\ fs.completions[1] = "absent"

\* C16: install_script with force and without dry_run on a link path that
\* holds a regular file succeeds and leaves a symlink to the script there;
\* without force it fails and leaves the file.
C16_ForceOverwritesFile ==
    ~args.dry_run =>
        \A k \in 1..Len(io) :
            (io[k].what = "install_script" /\ io[k].arg = "file") =>
                IF args.force
                THEN io[k].ok /\ fs.links[io[k].session] = "correct"
                ELSE /\ ~io[k].ok
                     /\ fs.links[io[k].session] = "file"
                     /\ result = <<Failed("Regular file exists. Use --force to overwrite.")>>

\* What C16 says of a call without force does hold.
FileKeptWithoutForce ==
    ~args.force => C16_ForceOverwritesFile

\* Without force the second script met a regular file: the installer
\* stopped there and the file is still in place.
FileRefusedWithoutForce ==
    /\ pc = "done"
    /\ ~args.force /\ ~args.dry_run
    /\ Len(io) = 2
    /\ io[2] = Call("install_script", 2, "file", FALSE)
    /\ fs.links[2] = "file"
    /\ result = <<Failed("Regular file exists. Use --force to overwrite.")>>

====
